---- MODULE Spec2Model ----
(***************************************************************************)
(* Model of worker/run_with_job_id.py (the "Job Picker"): a script that    *)
(* reads one pending job from a MongoDB collection and runs downloader.py  *)
(* on it.  Several invocations of the script run against one shared store, *)
(* next to external actors (the downloader, other writers) that change it. *)
(***************************************************************************)
EXTENDS Integers, Sequences, FiniteSets, TLC

\* ------------------------------------------------------------- bounds
NumJobs == 2   \* distinct _id values the store may hold
MaxRuns == 2   \* successive invocations made by each scheduler slot

\* Two scheduler slots, each running one invocation of the script at a time:
\* every property below speaks of one invocation or of a pair of them.
Procs == {1, 2}
Ids   == 9 .. (8 + NumJobs)        \* _id values; 9 and 10 render with 1 and 2 digits
\* Python's None, and a value that is present, for the optional values.
None    == <<>>
Some(v) == <<v>>

\* jobStatus values held by the store; only "pending" is inspected (line 13)
Status == {"pending", "completed"}

\* Exit statuses of the child process `python downloader.py <id>`:
\* 0 success, 1 failure inside the downloader, 2 script file not found.
ChildCodes == {0, 1, 2}

\* The process environment of an invocation: MONGO_URI unset, set to an
\* endpoint, or set to the empty string.
EnvChoices ==
    { <<>>,
      [MONGO_URI |-> "mongodb://db.internal:27017"],
      [MONGO_URI |-> ""] }

VARIABLES
    environ,     \* os.environ of the host the invocations run on
    store,       \* the jobs collection: _id -> jobStatus (partial function)
    pc,          \* pc[p]: position of invocation p in the script
    mongo_uri,   \* line 7
    client,      \* line 8: the endpoint the MongoClient was built for
    job,         \* line 13: None or the _id of the record returned
    job_id,      \* line 19: text
    stdout,      \* lines printed by the script
    stderr,      \* uncaught exceptions reported by the runtime
    calls,       \* argument lists passed to subprocess.run
    child,       \* "none", "running" or "exited"
    returncode,  \* exit status of the child, None before it exits
    exitcode,    \* exit status of the script, None while it runs
    runs,        \* number of the current invocation of slot p
    qstate,      \* history: "unqueried", "error" or "returned"
    seenPending, \* history: a pending record existed at the time of the query
    readStatus,  \* history: jobStatus the returned record had when read
    queries,     \* history: find_one calls issued in this invocation
    launched,    \* history: number of children slot p launched over its invocations
    extChanged   \* history: an external actor has written to the store

vars == << environ, store, pc, mongo_uri, client, job, job_id,
           stdout, stderr, calls, child, returncode, exitcode, runs, qstate,
           seenPending, readStatus, queries, launched, extChanged >>

localVars == << mongo_uri, client, job, job_id, stdout, stderr, calls, child,
                returncode, exitcode, qstate, seenPending, readStatus, queries >>

\* ------------------------------------------------------------- helpers
DefaultUri == "mongodb://localhost:27017"
NoJobNotice == <<"No pending job found.">>

Digit == <<"0", "1", "2", "3", "4", "5", "6", "7", "8", "9">>

\* A conversion that keeps only the last digit.
str_last_digit(n) == << Digit[(n % 10) + 1] >>

\* str(job["_id"]): the text rendering of an identifier, digit by digit.
RECURSIVE str(_)
str(n) ==
    IF n < 10 THEN << Digit[n + 1] >>
    ELSE str(n \div 10) \o << Digit[(n % 10) + 1] >>

\* f"Running job: {job_id}"
RunningLine(text) == <<"Running job: ">> \o text

\* `os.environ.get(key) or default`: an empty value falls back to the default.
environ_get_or(env, key, default) ==
    IF key \in DOMAIN env /\ env[key] # "" THEN env[key] ELSE default

\* os.environ.get(key, default)
environ_get(env, key, default) ==
    IF key \in DOMAIN env THEN env[key] ELSE default

\* MongoClient(uri) parses the host list when constructed and connects
\* lazily: an empty host is rejected, anything else yields a client.
ClientAccepts(uri) == uri # ""

\* find_one with the filter dropped: any record matches.
find_one_any(status) == DOMAIN store

\* find_one that skips records another invocation already holds.
find_one_unheld(status) ==
    { j \in DOMAIN store :
        store[j] = status /\ \A q \in Procs : job[q] # Some(j) }

\* jobs.find_one({"jobStatus": status}): the records that may be returned.
\* No sort is given, so the store's own order picks among them.
find_one(status) == { j \in DOMAIN store : store[j] = status }

\* find_one_and_update: the record returned is claimed.
StoreAfterClaim(j) == [store EXCEPT ![j] = "completed"]

\* The store after find_one returned record j: a read, nothing is written.
StoreAfterFind(j) == store

\* subprocess.run(..., check=True) followed by an exit with the child's status.
ExitStatusPropagated(rc) == rc

\* The script's exit status when it runs off its end after subprocess.run:
\* the CompletedProcess is discarded and its returncode never read.
ExitStatusAtEnd(rc) == 0

\* Popen without a wait: the script goes on while the child runs.
NoWait(p) == TRUE

\* subprocess.run returns once the child has terminated.
ChildDone(p) == child[p] = "exited"

\* An exception nobody catches is handled and the script goes on as if no
\* record had been found.
Swallowed(p, exc) ==
    /\ pc' = [pc EXCEPT ![p] = "branch"]
    /\ UNCHANGED << exitcode, stderr >>

\* The exception is caught and the script ends as if nothing had happened.
ExitsQuietly(p, exc) ==
    /\ pc' = [pc EXCEPT ![p] = "exited"]
    /\ exitcode' = [exitcode EXCEPT ![p] = Some(0)]
    /\ UNCHANGED stderr

\* An exception nobody catches (the script has no try/except): the runtime
\* prints the traceback and the process ends with status 1.
Uncaught(p, exc) ==
    /\ pc' = [pc EXCEPT ![p] = "exited"]
    /\ exitcode' = [exitcode EXCEPT ![p] = Some(1)]
    /\ stderr' = [stderr EXCEPT ![p] = Append(@, exc)]

\* ------------------------------------------------------------- initial state
StoreStates == UNION { [S -> Status] : S \in SUBSET Ids }

Init ==
    /\ environ \in EnvChoices
    /\ store \in StoreStates
    /\ pc = [p \in Procs |-> "start"]
    /\ mongo_uri = [p \in Procs |-> None]
    /\ client = [p \in Procs |-> None]
    /\ job = [p \in Procs |-> None]
    /\ job_id = [p \in Procs |-> None]
    /\ stdout = [p \in Procs |-> <<>>]
    /\ stderr = [p \in Procs |-> <<>>]
    /\ calls = [p \in Procs |-> <<>>]
    /\ child = [p \in Procs |-> "none"]
    /\ returncode = [p \in Procs |-> None]
    /\ exitcode = [p \in Procs |-> None]
    /\ runs = [p \in Procs |-> 1]
    /\ qstate = [p \in Procs |-> "unqueried"]
    /\ seenPending = [p \in Procs |-> FALSE]
    /\ readStatus = [p \in Procs |-> None]
    /\ queries = [p \in Procs |-> 0]
    /\ launched = [p \in Procs |-> 0]
    /\ extChanged = FALSE

\* ------------------------------------------------------------- the script
\* Lines 7-10: read MONGO_URI, build the client, name database and collection.
Connect(p) ==
    /\ pc[p] = "start"
    /\ LET uri == environ_get(environ, "MONGO_URI", DefaultUri) IN
         /\ mongo_uri' = [mongo_uri EXCEPT ![p] = Some(uri)]
         /\ IF ClientAccepts(uri)
              THEN /\ client' = [client EXCEPT ![p] = Some(uri)]
                   /\ pc' = [pc EXCEPT ![p] = "find_one"]
                   /\ UNCHANGED << exitcode, stderr >>
              ELSE /\ Uncaught(p, "ConfigurationError")
                   /\ UNCHANGED client
    /\ UNCHANGED << environ, store, job, job_id, stdout, calls,
                    child, returncode, runs, qstate, seenPending, readStatus, queries, launched,
                    extChanged >>

\* Line 13, the store is unreachable or the query fails: find_one raises.
FindOneRaises(p) ==
    /\ pc[p] = "find_one"
    /\ queries' = [queries EXCEPT ![p] = @ + 1]
    /\ qstate' = [qstate EXCEPT ![p] = "error"]
    /\ Uncaught(p, "ServerSelectionTimeoutError")
    /\ UNCHANGED << environ, store, mongo_uri, client, job, job_id,
                    stdout, calls, child, returncode, runs, seenPending, readStatus, launched,
                    extChanged >>

\* Line 13, no record matches: find_one returns None.
FindOneNone(p) ==
    /\ pc[p] = "find_one"
    /\ find_one("pending") = {}
    /\ queries' = [queries EXCEPT ![p] = @ + 1]
    /\ qstate' = [qstate EXCEPT ![p] = "returned"]
    /\ seenPending' = [seenPending EXCEPT ![p] =
                         \E i \in DOMAIN store : store[i] = "pending"]
    /\ UNCHANGED readStatus
    /\ job' = [job EXCEPT ![p] = None]
    /\ pc' = [pc EXCEPT ![p] = "branch"]
    /\ UNCHANGED << environ, store, mongo_uri, client, job_id,
                    stdout, stderr, calls, child, returncode, exitcode, runs,
                    launched, extChanged >>

\* Line 13, find_one returns the record with _id j.
FindOneReturns(p, j) ==
    /\ pc[p] = "find_one"
    /\ j \in find_one("pending")
    /\ queries' = [queries EXCEPT ![p] = @ + 1]
    /\ qstate' = [qstate EXCEPT ![p] = "returned"]
    /\ seenPending' = [seenPending EXCEPT ![p] =
                         \E i \in DOMAIN store : store[i] = "pending"]
    /\ readStatus' = [readStatus EXCEPT ![p] = Some(store[j])]
    /\ job' = [job EXCEPT ![p] = Some(j)]
    /\ store' = StoreAfterFind(j)
    /\ pc' = [pc EXCEPT ![p] = "branch"]
    /\ UNCHANGED << environ, mongo_uri, client, job_id, stdout,
                    stderr, calls, child, returncode, exitcode, runs,
                    launched, extChanged >>

\* Lines 15-17: no job, print the notice and sys.exit(0).
NoJob(p) ==
    /\ pc[p] = "branch"
    /\ job[p] = None
    /\ stdout' = [stdout EXCEPT ![p] = Append(@, NoJobNotice)]
    /\ exitcode' = [exitcode EXCEPT ![p] = Some(0)]
    /\ pc' = [pc EXCEPT ![p] = "exited"]
    /\ UNCHANGED << environ, store, mongo_uri, client, job, job_id,
                    stderr, calls, child, returncode, runs, qstate, seenPending, readStatus, queries,
                    launched, extChanged >>

\* Lines 19-20: render the identifier and print it.
PrintRunning(p) ==
    /\ pc[p] = "branch"
    /\ job[p] # None
    /\ job_id' = [job_id EXCEPT ![p] = str(job[p][1])]
    /\ stdout' = [stdout EXCEPT ![p] = Append(@, RunningLine(str(job[p][1])))]
    /\ pc' = [pc EXCEPT ![p] = "run"]
    /\ UNCHANGED << environ, store, mongo_uri, client, job, stderr,
                    calls, child, returncode, exitcode, runs, qstate, seenPending, readStatus, queries,
                    launched, extChanged >>

\* Line 23, the call: subprocess.run starts `python downloader.py <job_id>`.
\* found says whether the executable "python" can be started; when it
\* cannot, Popen raises FileNotFoundError.
Run(p, found) ==
    /\ pc[p] = "run"
    /\ calls' = [calls EXCEPT ![p] =
                   Append(@, <<"python", "downloader.py", job_id[p]>>)]
    /\ IF found
         THEN /\ child' = [child EXCEPT ![p] = "running"]
              /\ launched' = [launched EXCEPT ![p] = @ + 1]
              /\ pc' = [pc EXCEPT ![p] = "wait"]
              /\ UNCHANGED << exitcode, stderr >>
         ELSE /\ Uncaught(p, "FileNotFoundError")
              /\ UNCHANGED << child, launched >>
    /\ UNCHANGED << environ, store, mongo_uri, client, job, job_id,
                    stdout, returncode, runs, qstate, seenPending, readStatus, queries, extChanged >>

\* The child process terminates with status rc.
ChildExit(p, rc) ==
    /\ child[p] = "running"
    /\ child' = [child EXCEPT ![p] = "exited"]
    /\ returncode' = [returncode EXCEPT ![p] = Some(rc)]
    /\ UNCHANGED << environ, store, pc, mongo_uri, client, job,
                    job_id, stdout, stderr, calls, exitcode, runs, qstate, seenPending, readStatus,
                    queries, launched, extChanged >>

\* Line 23, the return: subprocess.run has waited for the child; the script
\* ends.
Finish(p) ==
    /\ pc[p] = "wait"
    /\ ChildDone(p)
    /\ exitcode' = [exitcode EXCEPT ![p] = Some(ExitStatusAtEnd(returncode[p][1]))]
    /\ pc' = [pc EXCEPT ![p] = "exited"]
    /\ UNCHANGED << environ, store, mongo_uri, client, job, job_id,
                    stdout, stderr, calls, child, returncode, runs, qstate, seenPending, readStatus,
                    queries, launched, extChanged >>

\* The scheduler starts the script again in slot p: a fresh process.
Restart(p) ==
    /\ pc[p] = "exited"
    /\ child[p] # "running"
    /\ runs[p] < MaxRuns
    /\ runs' = [runs EXCEPT ![p] = @ + 1]
    /\ pc' = [pc EXCEPT ![p] = "start"]
    /\ mongo_uri' = [mongo_uri EXCEPT ![p] = None]
    /\ client' = [client EXCEPT ![p] = None]
    /\ job' = [job EXCEPT ![p] = None]
    /\ job_id' = [job_id EXCEPT ![p] = None]
    /\ stdout' = [stdout EXCEPT ![p] = <<>>]
    /\ stderr' = [stderr EXCEPT ![p] = <<>>]
    /\ calls' = [calls EXCEPT ![p] = <<>>]
    /\ child' = [child EXCEPT ![p] = "none"]
    /\ returncode' = [returncode EXCEPT ![p] = None]
    /\ exitcode' = [exitcode EXCEPT ![p] = None]
    /\ qstate' = [qstate EXCEPT ![p] = "unqueried"]
    /\ seenPending' = [seenPending EXCEPT ![p] = FALSE]
    /\ readStatus' = [readStatus EXCEPT ![p] = None]
    /\ queries' = [queries EXCEPT ![p] = 0]
    /\ UNCHANGED << environ, store, launched, extChanged >>

\* ------------------------------------------------------------- environment
\* Another actor (the downloader, an operator) sets a record's jobStatus.
ExtSetStatus(j, s) ==
    /\ j \in DOMAIN store
    /\ store[j] # s
    /\ store' = [store EXCEPT ![j] = s]
    /\ extChanged' = TRUE
    /\ UNCHANGED << environ, pc, runs, launched, localVars >>

\* Another actor enqueues a job.
ExtInsert(j) ==
    /\ j \notin DOMAIN store
    /\ store' = [i \in DOMAIN store \cup {j} |->
                   IF i = j THEN "pending" ELSE store[i]]
    /\ extChanged' = TRUE
    /\ UNCHANGED << environ, pc, runs, launched, localVars >>

PickerStep(p) ==
    \/ Connect(p)
    \/ FindOneRaises(p)
    \/ FindOneNone(p)
    \/ \E j \in Ids : FindOneReturns(p, j)
    \/ NoJob(p)
    \/ PrintRunning(p)
    \/ \E found \in BOOLEAN : Run(p, found)
    \/ Finish(p)

Next ==
    \/ \E p \in Procs : PickerStep(p)
    \/ \E p \in Procs : \E rc \in ChildCodes : ChildExit(p, rc)
    \/ \E p \in Procs : Restart(p)
    \/ \E j \in Ids : \E s \in Status : ExtSetStatus(j, s)
    \/ \E j \in Ids : ExtInsert(j)

Spec == Init /\ [][Next]_vars

\* ------------------------------------------------------------- properties
Terminated(p) == pc[p] = "exited"

Pending == { j \in DOMAIN store : store[j] = "pending" }

\* The number a sequence of decimal digits denotes.
DigitValue(c) == CHOOSE d \in 0 .. 9 : Digit[d + 1] = c

RECURSIVE ParseDec(_)
ParseDec(text) ==
    IF text = <<>> THEN 0
    ELSE ParseDec(SubSeq(text, 1, Len(text) - 1)) * 10
           + DigitValue(text[Len(text)])

\* The one line on stdout is "Running job: " followed by the text of id.
PrintedRunning(p, id) ==
    /\ Len(stdout[p]) = 1
    /\ Len(stdout[p][1]) > 1
    /\ Head(stdout[p][1]) = "Running job: "
    /\ ParseDec(Tail(stdout[p][1])) = id

\* C1: when the query finds no pending record, the invocation goes straight
\* to its end: it never calls subprocess.run, never has a child, and once
\* terminated it has printed exactly the "No pending job found." notice and
\* exited with status 0, without a traceback.
C1_NoPendingExitsZero ==
    \A p \in Procs :
        (qstate[p] = "returned" /\ ~seenPending[p]) =>
            /\ pc[p] \in {"branch", "exited"}
            /\ job[p] = None
            /\ calls[p] = <<>>
            /\ child[p] = "none"
            /\ Terminated(p) =>
                 /\ stdout[p] = << <<"No pending job found.">> >>
                 /\ exitcode[p] = Some(0)
                 /\ stderr[p] = <<>>

\* C1 witness: an invocation has ended on the no-job path although the store
\* holds a record (one that is not pending).
C1_Witness ==
    \E p \in Procs :
        /\ Terminated(p)
        /\ qstate[p] = "returned"
        /\ ~seenPending[p]
        /\ exitcode[p] = Some(0)
        /\ DOMAIN store # {}

\* C2: when the query finds pending records, one record is selected, it was
\* pending when read, the "Running job: <id>" line carries its identifier,
\* subprocess.run is called at most once and, from the call on, exactly once
\* with the argument list python, downloader.py, <id as text>.
C2_DispatchesSelectedJob ==
    \A p \in Procs :
        (qstate[p] = "returned" /\ seenPending[p]) =>
            /\ Len(job[p]) = 1
            /\ readStatus[p] = Some("pending")
            /\ Len(calls[p]) <= 1
            /\ pc[p] \in {"run", "wait", "exited"} =>
                 PrintedRunning(p, job[p][1])
            /\ pc[p] \in {"wait", "exited"} =>
                 /\ Len(calls[p]) = 1
                 /\ Len(calls[p][1]) = 3
                 /\ calls[p][1][1] = "python"
                 /\ calls[p][1][2] = "downloader.py"
                 /\ ParseDec(calls[p][1][3]) = job[p][1]

\* C2 witness: with two pending records at hand an invocation has run the
\* downloader to its end on the record whose identifier has two digits.
C2_Witness ==
    \E p \in Procs :
        /\ Terminated(p)
        /\ child[p] = "exited"
        /\ job[p] = Some(10)
        /\ calls[p] = << <<"python", "downloader.py", <<"1", "0">> >> >>
        /\ Cardinality(Pending) >= 2

\* C3: no step of the script writes to the store: whenever an invocation
\* moves (query, branch, dispatch, normal or abnormal end), the record set and
\* every jobStatus are what they were.
C3_ReadOnly == [][ (pc' # pc) => (store' = store) ]_vars

\* C3 witness: an invocation found a job, ran the downloader and ended, and
\* nothing has written to the store.
C3_Witness ==
    \E p \in Procs :
        /\ Terminated(p)
        /\ child[p] = "exited"
        /\ ~extChanged
        /\ Pending # {}

\* C4: whatever status the child exits with, an invocation that waited for
\* it ends with status 0 and no traceback.
C4_ChildStatusIgnored ==
    \A p \in Procs :
        (Terminated(p) /\ child[p] = "exited") =>
            /\ returncode[p] \in { Some(rc) : rc \in ChildCodes }
            /\ exitcode[p] = Some(0)
            /\ stderr[p] = <<>>

\* C4 witness: the child failed and the invocation has ended.
C4_Witness ==
    \E p \in Procs :
        /\ Terminated(p)
        /\ child[p] = "exited"
        /\ returncode[p] = Some(1)
        /\ exitcode[p] = Some(0)

\* C5 as stated: once a pending job was found, the invocation ends with
\* status 0 and no traceback, whether the downloader cannot be launched or
\* fails.
C5_Original ==
    \A p \in Procs :
        (Terminated(p) /\ job[p] # None) =>
            (exitcode[p] = Some(0) /\ stderr[p] = <<>>)

\* C5 amended: once a pending job was found, a child that was launched and
\* failed (a missing downloader.py included: the interpreter exits with 2)
\* leaves the invocation ending with status 0; when the interpreter itself
\* cannot be launched, subprocess.run raises FileNotFoundError and the
\* invocation ends abnormally with status 1.
C5_LaunchFailureIsAbnormal ==
    \A p \in Procs :
        (Terminated(p) /\ job[p] # None) =>
            /\ child[p] \in {"none", "exited"}
            /\ child[p] = "exited" =>
                 (exitcode[p] = Some(0) /\ stderr[p] = <<>>)
            /\ child[p] = "none" =>
                 /\ exitcode[p] = Some(1)
                 /\ stderr[p] = <<"FileNotFoundError">>
                 /\ Len(calls[p]) = 1

\* C5 witness: the launch failed after a pending job was found.
C5_Witness ==
    \E p \in Procs :
        /\ Terminated(p)
        /\ job[p] # None
        /\ child[p] = "none"
        /\ exitcode[p] = Some(1)

\* C6: an invocation that holds a job (selected, printed or running its
\* downloader) does not keep another invocation from selecting the same job:
\* as long as the record is pending, the other query may return it.
C6_NoClaim ==
    \A p \in Procs : \A q \in Procs \ {p} : \A j \in Ids :
        ( /\ job[p] = Some(j)
          /\ pc[p] \in {"branch", "run", "wait"}
          /\ pc[q] = "find_one"
          /\ j \in Pending )
        => ENABLED FindOneReturns(q, j)

\* C6 witness: both invocations have a downloader running for the same job.
C6_Witness ==
    /\ child[1] = "running"
    /\ child[2] = "running"
    /\ job[1] # None
    /\ job[1] = job[2]
    /\ calls[1] = calls[2]

\* C7: when the query fails, the invocation has queried once, ends
\* abnormally (status 1, traceback), has printed nothing and has called
\* subprocess.run never.
C7_QueryFailureIsFatal ==
    \A p \in Procs :
        qstate[p] = "error" =>
            /\ Terminated(p)
            /\ exitcode[p] = Some(1)
            /\ stderr[p] = <<"ServerSelectionTimeoutError">>
            /\ queries[p] = 1
            /\ stdout[p] = <<>>
            /\ calls[p] = <<>>
            /\ child[p] = "none"

\* C7 witness: the query of an invocation failed while a job was pending.
C7_Witness ==
    \E p \in Procs :
        /\ qstate[p] = "error"
        /\ Terminated(p)
        /\ Pending # {}

\* C8: a call of subprocess.run, and so a child, comes after the
\* "Running job: <id>" line, and an invocation that has terminated has no
\* child still running.
C8_PrintThenRunThenWait ==
    \A p \in Procs :
        /\ (calls[p] # <<>> \/ child[p] # "none") =>
              (job[p] # None /\ PrintedRunning(p, job[p][1]))
        /\ Terminated(p) => child[p] # "running"
        /\ child[p] = "running" => pc[p] = "wait"

\* C8 witness: an invocation is blocked in subprocess.run while its child runs.
C8_Witness ==
    \E p \in Procs :
        /\ pc[p] = "wait"
        /\ child[p] = "running"
        /\ Len(stdout[p]) = 1

\* C9: the endpoint computed, the endpoint the client is built for and so
\* the endpoint queried is the value of MONGO_URI when the variable is set
\* and mongodb://localhost:27017 when it is not.
C9_Endpoint ==
    LET expected ==
          IF "MONGO_URI" \in DOMAIN environ
            THEN environ["MONGO_URI"]
            ELSE "mongodb://localhost:27017"
    IN \A p \in Procs :
          /\ mongo_uri[p] \in {None, Some(expected)}
          /\ client[p] \in {None, Some(expected)}
          /\ pc[p] # "start" => mongo_uri[p] = Some(expected)
          /\ qstate[p] # "unqueried" => client[p] = Some(expected)

\* C9 witness: with MONGO_URI unset a query was answered through a client
\* for the default endpoint.
C9_Witness ==
    \E p \in Procs :
        /\ environ = <<>>
        /\ qstate[p] = "returned"
        /\ client[p] = Some("mongodb://localhost:27017")

\* C10: as long as no external actor has written to the store, a job whose
\* downloader was launched is still pending, and every invocation that ends
\* normally while a job is pending has dispatched a job that is pending
\* still.
C10_StillPendingAfterDispatch ==
    \A p \in Procs :
        ~extChanged =>
            /\ child[p] # "none" =>
                 (job[p] # None /\ job[p][1] \in Pending)
            /\ (Terminated(p) /\ exitcode[p] = Some(0) /\ Pending # {}) =>
                 (child[p] = "exited" /\ job[p] # None /\ job[p][1] \in Pending)

\* C10 witness: with one pending job and no external write, every one of the
\* successive invocations of a slot has launched the downloader, all for
\* that one job.
C10_Witness ==
    \E p \in Procs :
        /\ ~extChanged
        /\ Cardinality(Pending) = 1
        /\ runs[p] = MaxRuns
        /\ launched[p] = MaxRuns
        /\ MaxRuns >= 2
        /\ Terminated(p)

====
